---------------------------- MODULE Spec2Model ----------------------------
(***************************************************************************)
(* A model of the stock dashboard of src/components/stock-chart.tsx:       *)
(*   StockSearch  (lines 211-234)  the search form,                        *)
(*   Home         (lines 292-458)  the dashboard controller and its        *)
(*                                 useSWR fetch, fetcher (lines 263-290),  *)
(*   StockChart   (lines 22-199)   the d3 chart effect.                    *)
(* Each component has a specification of its own (SpecSearch, SpecFetcher, *)
(* SpecDerived, SpecChart, SpecDash, SpecRetry) over the same variables;   *)
(* a specification leaves the variables of the other components alone.     *)
(***************************************************************************)
EXTENDS Integers, Sequences, FiniteSets, TLC

VARIABLES
    \* StockSearch and the useState cells of Home
    query,            \* StockSearch: useState('') (line 212), a sequence of characters
    symbol,           \* Home: useState('TATAMOTORS.BSE') (line 293)
    timeRange,        \* Home: useState('1M') (line 294)
    showCandlestick,  \* Home: useState(false) (line 295)
    lastValid,        \* history: the text of the latest submission whose trimmed text was non-empty (<<>>: none)
    blankSubmitted,   \* history: a text that is empty or only white space has been submitted
    blankEffect,      \* history: such a submission invoked onSearch or changed symbol, range or mode
    \* fetcher
    response,         \* the JSON object res.json() gave (line 265)
    outcome,          \* what the call did: the Error it threw or the bars it returned (NoCall before it)
    \* the derived values of Home, with the fetch layer left out
    swrData,          \* the data useSWR returned to the latest render (line 297)
    now,              \* what new Date() gave the latest render (line 337), in minutes since the epoch
    \* StockChart and the document it draws into
    mounted,          \* whether a StockChart is mounted
    props,            \* the props of its latest render (line 22)
    svg,              \* the children of the <svg> element (line 196): a sequence of groups of elements
    body,             \* the tooltip elements the chart has appended to document.body (line 154)
    cleanup,          \* the cleanup React holds for the effect: the tooltip it removes (lines 189-191), 0 for none
    pointer,          \* history: where the latest mousemove of this render was, NoPointer for none
    lastDrawn,        \* history: the props of the latest effect run that drew, NoProps for none
    drawnBefore,      \* history: the glyphs the run that drew before that one drew, "none" for none
    \* the fetch layer behind useSWR (lines 297-311)
    cache,            \* per key: the data, error, isValidating and isLoading useSWR returns for it
    FETCH,            \* per key: the request in flight or just settled, with its retry count
    timers,           \* per key and retry count: the error-retry timeouts set and not yet fired
    keyChanges,       \* how many times the key has changed (capped by MaxKeyChanges)
    attempts,         \* history: the requests issued for the key Home starts with while the key
                      \* has never changed, 0 once it has
    lastFailure,      \* history: the message of the latest failed request of the current key since
                      \* it became the key, "" for none
    staleResponse     \* history: "none", or what became of the responses that arrived for another
                      \* symbol or range than the current ones: "ignored" or "applied"

searchVars == <<query, symbol, timeRange, showCandlestick, lastValid, blankSubmitted, blankEffect>>

fetcherVars == <<response, outcome>>

derivedVars == <<swrData, now>>

chartVars == <<mounted, props, svg, body, cleanup, pointer, lastDrawn, drawnBefore>>

swrVars == <<cache, FETCH, timers, keyChanges, attempts, lastFailure, staleResponse>>

vars == <<searchVars, fetcherVars, derivedVars, chartVars, swrVars>>

\* what the handlers of one component leave alone: the other components
notSearch == <<fetcherVars, derivedVars, chartVars, swrVars>>

notFetcher == <<searchVars, derivedVars, chartVars, swrVars>>

notDerived == <<query, symbol, showCandlestick, lastValid, blankSubmitted, blankEffect,
                fetcherVars, chartVars, swrVars>>

notChart == <<searchVars, fetcherVars, derivedVars, swrVars>>

notDash == <<fetcherVars, now, chartVars>>

(***************************************************************************)
(* Strings are sequences of one-character strings.                         *)
(***************************************************************************)
MaxQueryLen == 3

QueryChars == {" ", "a", "B"}

\* the values one edit of the text field can give it: a character typed at the
\* end, the last character deleted, the field cleared
Edits(text) ==
    {Append(text, c) : c \in IF Len(text) < MaxQueryLen THEN QueryChars ELSE {}}
        \cup (IF text = <<>> THEN {} ELSE {SubSeq(text, 1, Len(text) - 1), <<>>})

\* a text that is empty or only white space
IsBlank(s) == \A i \in 1..Len(s) : s[i] \in {" ", "\t", "\n"}

IsWhiteSpace(c) == c \in {" ", "\t", "\n"}

RECURSIVE TrimStart(_)
TrimStart(s) ==
    IF s = <<>> THEN <<>>
    ELSE IF IsWhiteSpace(Head(s)) THEN TrimStart(Tail(s)) ELSE s

RECURSIVE TrimEnd(_)
TrimEnd(s) ==
    IF s = <<>> THEN <<>>
    ELSE IF IsWhiteSpace(s[Len(s)]) THEN TrimEnd(SubSeq(s, 1, Len(s) - 1)) ELSE s

\* String.prototype.trim (lines 216, 217)
Trim(s) == TrimEnd(TrimStart(s))

Lower == <<"a", "b", "c", "d", "e", "f", "g", "h", "i", "j", "k", "l", "m",
           "n", "o", "p", "q", "r", "s", "t", "u", "v", "w", "x", "y", "z">>

Upper == <<"A", "B", "C", "D", "E", "F", "G", "H", "I", "J", "K", "L", "M",
           "N", "O", "P", "Q", "R", "S", "T", "U", "V", "W", "X", "Y", "Z">>

IsLowerCase(c) == \E i \in 1..Len(Lower) : Lower[i] = c

UpperChar(c) ==
    IF IsLowerCase(c) THEN Upper[CHOOSE i \in 1..Len(Lower) : Lower[i] = c] ELSE c

\* String.prototype.toUpperCase (line 315)
ToUpperCase(s) == [i \in 1..Len(s) |-> UpperChar(s[i])]

\* useState('TATAMOTORS.BSE') (line 293)
DefaultSymbol == <<"T", "A", "T", "A", "M", "O", "T", "O", "R", "S", ".", "B", "S", "E">>

\* Object.keys(TIME_RANGES) (lines 252-259, 436)
TimeRangeNames == {"1D", "1M", "6M", "1Y", "5Y", "ALL"}

handleSearchAsTyped(q) == IF q = <<>> THEN symbol ELSE q

\* Home.handleSearch (lines 313-316): the next value of symbol
handleSearch(q) == IF q = <<>> THEN symbol ELSE ToUpperCase(q)

\* StockSearch.handleSubmit (lines 214-218): whether onSearch is invoked
SubmitCalls(text) == Trim(text) # <<>>

\* StockSearch.handleSubmit (lines 214-218): the argument onSearch is invoked with
SubmitArg(text) == Trim(text)

SearchInit ==
    /\ query = <<>>
    /\ symbol = DefaultSymbol
    /\ timeRange = "1M"
    /\ showCandlestick = FALSE
    /\ lastValid = <<>>
    /\ blankSubmitted = FALSE
    /\ blankEffect = FALSE

\* onChange={(e) => setQuery(e.target.value)} (line 226)
SetQuery(text) ==
    /\ query' = text
    /\ UNCHANGED <<symbol, timeRange, showCandlestick, lastValid, blankSubmitted, blankEffect>>
    /\ UNCHANGED notSearch

\* the form's onSubmit (lines 214-218) and, through onSearch, Home.handleSearch
Submit ==
    /\ symbol' = IF SubmitCalls(query) THEN handleSearch(SubmitArg(query)) ELSE symbol
    /\ UNCHANGED <<query, timeRange, showCandlestick>>
    /\ UNCHANGED notSearch
    /\ lastValid' = IF IsBlank(query) THEN lastValid ELSE query
    /\ blankSubmitted' = (blankSubmitted \/ IsBlank(query))
    /\ blankEffect' = \/ blankEffect
                      \/ /\ IsBlank(query)
                         /\ \/ SubmitCalls(query)
                            \/ <<symbol, timeRange, showCandlestick>>' # <<symbol, timeRange, showCandlestick>>

\* onValueChange={(value) => value && setTimeRange(value)} (line 435)
SetTimeRange(value) ==
    /\ value # ""
    /\ timeRange' = value
    /\ UNCHANGED <<query, symbol, showCandlestick, lastValid, blankSubmitted, blankEffect>>
    /\ UNCHANGED notSearch

\* onCheckedChange={setShowCandlestick} (line 431)
SetShowCandlestick(checked) ==
    /\ showCandlestick' = checked
    /\ UNCHANGED <<query, symbol, timeRange, lastValid, blankSubmitted, blankEffect>>
    /\ UNCHANGED notSearch

NextSearch ==
    \/ \E text \in Edits(query) : SetQuery(text)
    \/ Submit
    \/ \E value \in TimeRangeNames \cup {""} : SetTimeRange(value)
    \/ \E checked \in BOOLEAN : SetShowCandlestick(checked)


(***************************************************************************)
(* C5                                                                      *)
(***************************************************************************)
\* u is the upper-case form of the character c
IsUpperOf(u, c) ==
    IF IsLowerCase(c) THEN \E i \in 1..Len(Lower) : Lower[i] = c /\ Upper[i] = u ELSE u = c

\* s is text without its leading and trailing white space, upper-cased
IsUpperTrimOf(s, text) ==
    \E i \in 1..Len(text) : \E j \in i..Len(text) :
        /\ IsBlank(SubSeq(text, 1, i - 1))
        /\ IsBlank(SubSeq(text, j + 1, Len(text)))
        /\ ~IsBlank(<<text[i]>>)
        /\ ~IsBlank(<<text[j]>>)
        /\ Len(s) = j - i + 1
        /\ \A k \in 1..Len(s) : IsUpperOf(s[k], text[i + k - 1])

\* C5: after any sequence of submissions the symbol is the upper-cased, trimmed
\* text of the latest submission whose trimmed text was non-empty (the default
\* ticker when there was none), it is never empty and holds no lower-case letter;
\* no submission of an empty or white-space text has invoked the callback or
\* changed the symbol, the time range or the display mode.
C5_SymbolFollowsSearch ==
    /\ ~blankEffect
    /\ IF lastValid = <<>> THEN symbol = DefaultSymbol ELSE IsUpperTrimOf(symbol, lastValid)
    /\ symbol # <<>>
    /\ \A k \in 1..Len(symbol) : ~IsLowerCase(symbol[k])

\* a blank text (not the empty one) was submitted after a padded lower-case one,
\* with the range and the mode changed meanwhile
C5_Witness ==
    /\ lastValid = <<" ", "a", " ">>
    /\ symbol = <<"A">>
    /\ query = <<" ", " ">>
    /\ blankSubmitted
    /\ timeRange = "5Y"
    /\ showCandlestick


(***************************************************************************)
(* fetcher (lines 263-290).  A JSON object is a sequence of <<key, value>> *)
(* pairs in the order of its keys; a key is the sequence of its words, so  *)
(* that key.includes('Time Series') can be computed; a value is a record   *)
(* with its JSON type.  A date "2024-06-14" is the tuple <<2024, 6, 14>>,  *)
(* a number in a string is the sequence of its digits.                     *)
(***************************************************************************)
Undefined == [type |-> "undefined"]

JsonNull == [type |-> "null"]

JsonString(text) == [type |-> "string", str |-> text]

JsonObject(entries) == [type |-> "object", entries |-> entries]

\* JavaScript's ToBoolean, as the if statements of lines 267, 271 and 278 apply it
Truthy(v) ==
    CASE v.type = "undefined" -> FALSE
      [] v.type = "null" -> FALSE
      [] v.type = "string" -> v.str # ""
      [] v.type = "object" -> TRUE

\* data[key] (lines 267, 271, 276)
Get(data, key) ==
    IF \E i \in 1..Len(data) : data[i][1] = key
    THEN data[CHOOSE i \in 1..Len(data) : data[i][1] = key][2]
    ELSE Undefined

\* String.prototype.includes on the words of a key (line 275)
Includes(key, words) ==
    \E i \in 0..(Len(key) - Len(words)) : SubSeq(key, i + 1, i + Len(words)) = words

\* Object.keys(data).find(key => key.includes('Time Series')) (line 275)
FindTimeSeriesKey(data) ==
    LET hits == {i \in 1..Len(data) : Includes(data[i][1], <<"Time", "Series">>)}
    IN  IF hits = {} THEN Undefined
        ELSE JsonString(data[CHOOSE i \in hits : \A j \in hits : i <= j][1])

DigitValue(c) ==
    CASE c = "0" -> 0 [] c = "1" -> 1 [] c = "2" -> 2 [] c = "3" -> 3 [] c = "4" -> 4
      [] c = "5" -> 5 [] c = "6" -> 6 [] c = "7" -> 7 [] c = "8" -> 8 [] c = "9" -> 9

RECURSIVE ParseDigits(_, _)
ParseDigits(s, acc) ==
    IF s = <<>> THEN acc ELSE ParseDigits(Tail(s), 10 * acc + DigitValue(Head(s)))

\* parseFloat of a string of digits (lines 284-288)
ParseFloat(s) == ParseDigits(s, 0)

Reverse(seq) == [i \in 1..Len(seq) |-> seq[Len(seq) + 1 - i]]

\* Object.entries(timeSeries).map(...) (lines 282-289), before the reverse
EntriesToBars(entries) ==
    [i \in 1..Len(entries) |->
        [date   |-> entries[i][1],
         open   |-> ParseFloat(entries[i][2].open),
         high   |-> ParseFloat(entries[i][2].high),
         low    |-> ParseFloat(entries[i][2].low),
         close  |-> ParseFloat(entries[i][2].close),
         volume |-> ParseFloat(entries[i][2].volume)]]

ErrorMessageKey == <<"Error", "Message">>

NoteKey == <<"Note">>

\* the message of line 272
RateLimitMessage == "API rate limit exceeded. Please try again in a minute."

\* the message of line 279
NoDataMessage == "No data available for this stock symbol. Please check the symbol and try again."

Throw(message) == [kind |-> "error", message |-> message]

Return(bars) == [kind |-> "bars", bars |-> bars]

fetcherNoteFirst(data) ==
    IF Truthy(Get(data, NoteKey)) THEN Throw(RateLimitMessage)
    ELSE IF Truthy(Get(data, ErrorMessageKey)) THEN Throw(Get(data, ErrorMessageKey).str)
    ELSE LET timeSeriesKey == FindTimeSeriesKey(data)
             timeSeries == IF timeSeriesKey = Undefined THEN Undefined
                           ELSE Get(data, timeSeriesKey.str)
         IN  IF ~Truthy(timeSeries) THEN Throw(NoDataMessage)
             ELSE Return(Reverse(EntriesToBars(timeSeries.entries)))

\* fetcher (lines 263-290), from the parsed JSON on
fetcher(data) ==
    IF Truthy(Get(data, ErrorMessageKey)) THEN Throw(Get(data, ErrorMessageKey).str)
    ELSE IF Truthy(Get(data, NoteKey)) THEN Throw(RateLimitMessage)
    ELSE LET timeSeriesKey == FindTimeSeriesKey(data)
             timeSeries == IF timeSeriesKey = Undefined THEN Undefined
                           ELSE Get(data, timeSeriesKey.str)
         IN  IF ~Truthy(timeSeries) THEN Throw(NoDataMessage)
             ELSE Return(Reverse(EntriesToBars(timeSeries.entries)))

(***************************************************************************)
(* The responses the fetcher is applied to: each of the fields "Error      *)
(* Message", "Note", "Meta Data" and a time series is absent or present    *)
(* with one of a few values, in the order the API sends them.              *)
(***************************************************************************)
Quote(o, h, l, c, v) == [open |-> o, high |-> h, low |-> l, close |-> c, volume |-> v]

NewestFirst ==
    << <<<<2024, 6, 14>>, Quote(<<"1", "0", "5">>, <<"1", "1", "2">>, <<"1", "0", "4">>,
                                <<"1", "1", "0">>, <<"3", "0", "0">>)>>,
       <<<<2024, 6, 13>>, Quote(<<"9", "9">>, <<"1", "0", "6">>, <<"9", "8">>,
                                <<"1", "0", "0">>, <<"2", "5", "0">>)>> >>

ErrorTexts == {"", "Invalid API call.", RateLimitMessage}

NoteTexts == {"", "Thank you for using Alpha Vantage!"}

TimeSeriesKeys == {<<"Time", "Series", "(Daily)">>, <<"Weekly", "Time", "Series">>}

TimeSeriesValues == {JsonNull, JsonObject(<<>>), JsonObject(NewestFirst)}

OptionalField(key, values) == {<<>>} \cup {<< <<key, v>> >> : v \in values}

Responses ==
    {e \o n \o m \o t :
        e \in OptionalField(ErrorMessageKey, {JsonString(x) : x \in ErrorTexts}),
        n \in OptionalField(NoteKey, {JsonString(x) : x \in NoteTexts}),
        m \in OptionalField(<<"Meta", "Data">>, {JsonObject(<<>>)}),
        t \in UNION {OptionalField(k, TimeSeriesValues) : k \in TimeSeriesKeys}}

NoCall == [kind |-> "none"]

FetcherInit ==
    /\ response = <<>>
    /\ outcome = NoCall

\* one call of fetcher on a response (lines 263-290)
Fetch(data) ==
    /\ response' = data
    /\ outcome' = fetcher(data)
    /\ UNCHANGED notFetcher

NextFetcher == \E data \in Responses : Fetch(data)

(***************************************************************************)
(* C4                                                                      *)
(***************************************************************************)
HasField(data, key) == \E i \in 1..Len(data) : data[i][1] = key

FieldOf(data, key) == data[CHOOSE i \in 1..Len(data) : data[i][1] = key][2]

HasNonEmptyText(data, key) ==
    /\ HasField(data, key)
    /\ FieldOf(data, key).type = "string"
    /\ FieldOf(data, key).str # ""

HasTimeSeriesField(data) == \E k \in TimeSeriesKeys : HasField(data, k)

TimeSeriesField(data) == FieldOf(data, CHOOSE k \in TimeSeriesKeys : HasField(data, k))

MinutesPerDay == 1440

\* the day number of the civil date y-m-d (m in 1..12), 1970-01-01 being day 0
DaysFromCivil(y, m, d) ==
    LET yy  == IF m <= 2 THEN y - 1 ELSE y
        era == yy \div 400
        yoe == yy - era * 400
        mp  == IF m > 2 THEN m - 3 ELSE m + 9
        doy == (153 * mp + 2) \div 5 + d - 1
        doe == yoe * 365 + yoe \div 4 - yoe \div 100 + doy
    IN  era * 146097 + doe - 719468

\* the civil date <<y, m, d>> of a day number
CivilFromDays(z) ==
    LET zz  == z + 719468
        era == zz \div 146097
        doe == zz - era * 146097
        yoe == (doe - doe \div 1460 + doe \div 36524 - doe \div 146096) \div 365
        doy == doe - (365 * yoe + yoe \div 4 - yoe \div 100)
        mp  == (5 * doy + 2) \div 153
        d   == doy - (153 * mp + 2) \div 5 + 1
        m   == IF mp < 10 THEN mp + 3 ELSE mp - 9
    IN  <<yoe + era * 400 + (IF m <= 2 THEN 1 ELSE 0), m, d>>

\* Date.prototype.getFullYear, getMonth (0..11), getDate
GetFullYear(t) == CivilFromDays(t \div MinutesPerDay)[1]

GetMonth(t) == CivilFromDays(t \div MinutesPerDay)[2] - 1

GetDate(t) == CivilFromDays(t \div MinutesPerDay)[3]

TimeWithinDay(t) == t % MinutesPerDay

\* ECMAScript MakeDay and MakeDate: month may lie outside 0..11 and date outside
\* the month, and both carry over
MakeDate(year, month, date, time) ==
    LET ym == year + month \div 12
        mn == month % 12
    IN  (DaysFromCivil(ym, mn + 1, 1) + date - 1) * MinutesPerDay + time

\* cutoffDate.setDate(date) (line 342)
SetDate(t, date) == MakeDate(GetFullYear(t), GetMonth(t), date, TimeWithinDay(t))

\* cutoffDate.setMonth(month) (lines 345, 348)
SetMonth(t, month) == MakeDate(GetFullYear(t), month, GetDate(t), TimeWithinDay(t))

\* cutoffDate.setFullYear(year) (lines 351, 354)
SetFullYear(t, year) == MakeDate(year, GetMonth(t), GetDate(t), TimeWithinDay(t))

\* new Date(item.date) for a date-only string (line 360)
ParseDate(ymd) == DaysFromCivil(ymd[1], ymd[2], ymd[3]) * MinutesPerDay

\* the switch of lines 340-358: the cutoff of a range, both Dates being new Date()
CutoffDate(range, t) ==
    CASE range = "1D" -> SetDate(t, GetDate(t) - 1)
      [] range = "1M" -> SetMonth(t, GetMonth(t) - 1)
      [] range = "6M" -> SetMonth(t, GetMonth(t) - 6)
      [] range = "1Y" -> SetFullYear(t, GetFullYear(t) - 1)
      [] range = "5Y" -> SetFullYear(t, GetFullYear(t) - 5)

\* what useSWR returns as data: undefined, or the bars the fetcher returned
NoData == [defined |-> FALSE, bars |-> <<>>]

Data(bars) == [defined |-> TRUE, bars |-> bars]

\* filterDataByTimeRange (lines 335-361)
filterDataByTimeRange(data, range, t) ==
    IF ~data.defined THEN <<>>
    ELSE IF range \notin {"1D", "1M", "6M", "1Y", "5Y"} THEN data.bars
    ELSE LET cutoffDate == CutoffDate(range, t)
             Keep(item) == ParseDate(item.date) >= cutoffDate
         IN  SelectSeq(data.bars, Keep)

\* a quotient, kept as numerator and denominator
Ratio(n, d) == [num |-> n, den |-> d]

\* calculateChange (lines 328-331)
calculateChange(data) ==
    IF ~data.defined \/ Len(data.bars) < 2 THEN Ratio(0, 1)
    ELSE Ratio((data.bars[Len(data.bars)].close - data.bars[1].close) * 100, data.bars[1].close)

\* const change = data ? calculateChange() : 0 (line 333)
change == IF swrData.defined THEN calculateChange(swrData) ELSE Ratio(0, 1)

\* const filteredData = data ? filterDataByTimeRange(data) : [] (line 363)
filteredData == IF swrData.defined THEN filterDataByTimeRange(swrData, timeRange, now) ELSE <<>>

(***************************************************************************)
(* The series and the clock readings the derived values are computed for.  *)
(***************************************************************************)
Bar(ymd, o, h, l, c, v) ==
    [date |-> ymd, open |-> o, high |-> h, low |-> l, close |-> c, volume |-> v]

\* bars by ascending date
History ==
    << Bar(<<2019, 6, 14>>, 60, 62, 59, 61, 900),
       Bar(<<2023, 3, 1>>, 80, 84, 79, 83, 700),
       Bar(<<2024, 3, 1>>, 95, 96, 90, 92, 650),
       Bar(<<2024, 5, 1>>, 98, 101, 97, 100, 400),
       Bar(<<2024, 6, 1>>, 104, 111, 103, 110, 300),
       Bar(<<2024, 6, 14>>, 110, 112, 104, 105, 250) >>

MaxBars == 3

\* the subsequences of seq of at most n elements
RECURSIVE SubSeqsUpTo(_, _)
SubSeqsUpTo(seq, n) ==
    IF seq = <<>> \/ n = 0 THEN {<<>>}
    ELSE SubSeqsUpTo(Tail(seq), n)
            \cup {<<Head(seq)>> \o rest : rest \in SubSeqsUpTo(Tail(seq), n - 1)}

Series == SubSeqsUpTo(History, MaxBars)

ClockDays == {<<2024, 6, 15>>, <<2024, 3, 31>>, <<2024, 2, 29>>, <<2024, 3, 1>>, <<2024, 6, 14>>}

\* midnight and 09:30
ClockTimes == {0, 570}

Clock == {ParseDate(ymd) + time : ymd \in ClockDays, time \in ClockTimes}

DerivedInit ==
    /\ swrData = NoData
    /\ now = ParseDate(<<2024, 6, 15>>)

\* useSWR returns the bars of a finished fetch (line 297); Home renders
DataArrives(bars) ==
    /\ swrData' = Data(bars)
    /\ UNCHANGED <<now, timeRange>>
    /\ UNCHANGED notDerived

\* Home renders at another time (line 337)
RenderAt(t) ==
    /\ now' = t
    /\ UNCHANGED <<swrData, timeRange>>
    /\ UNCHANGED notDerived

NextDerived ==
    \/ \E bars \in Series : DataArrives(bars)
    \/ \E t \in Clock : RenderAt(t)
    \/ \E value \in TimeRangeNames \cup {""} : SetTimeRange(value)

(***************************************************************************)
(* C2, C3                                                                  *)
(***************************************************************************)
\* C2: the percent change of the Change card, shown when the filtered series is
\* not empty, is (last.close - first.close) / first.close * 100 over the first
\* and last bar of the filtered series, and 0 when that series has one bar.
C2_ChangeOverFiltered ==
    Len(filteredData) > 0 =>
        IF Len(filteredData) < 2 THEN change.num = 0
        ELSE change.num * filteredData[1].close
                = (filteredData[Len(filteredData)].close - filteredData[1].close) * 100 * change.den

DaysInMonth(y, m) ==
    DaysFromCivil(IF m = 12 THEN y + 1 ELSE y, IF m = 12 THEN 1 ELSE m + 1, 1) - DaysFromCivil(y, m, 1)

\* the time value months calendar months before t: the same day of the month,
\* or the last day of a shorter month, at the same time of day
MonthsBefore(t, months) ==
    LET ymd   == CivilFromDays(t \div MinutesPerDay)
        index == ymd[1] * 12 + (ymd[2] - 1) - months
        y     == index \div 12
        m     == (index % 12) + 1
        d     == IF ymd[3] < DaysInMonth(y, m) THEN ymd[3] ELSE DaysInMonth(y, m)
    IN  DaysFromCivil(y, m, d) * MinutesPerDay + (t % MinutesPerDay)

\* now minus the look-back of a range
LookBack(range, t) ==
    CASE range = "1D" -> t - MinutesPerDay
      [] range = "1M" -> MonthsBefore(t, 1)
      [] range = "6M" -> MonthsBefore(t, 6)
      [] range = "1Y" -> MonthsBefore(t, 12)
      [] range = "5Y" -> MonthsBefore(t, 60)

\* C3: for the ranges 1D, 1M, 6M, 1Y and 5Y the filtered series is exactly the
\* bars dated at or after now minus the range's look-back, in their order; for
\* ALL it is the fetched series.
C3_FilterByLookBack ==
    swrData.defined =>
        IF timeRange = "ALL" THEN filteredData = swrData.bars
        ELSE LET AtOrAfter(item) ==
                     DaysFromCivil(item.date[1], item.date[2], item.date[3]) * MinutesPerDay
                        >= LookBack(timeRange, now)
             IN  filteredData = SelectSeq(swrData.bars, AtOrAfter)

(***************************************************************************)
(* StockChart (lines 22-199).  An element the effect appends is a record   *)
(* of its tag, its role in the chart and the props it was drawn from,      *)
(* which fix its geometry.  The d3 scales are kept exact: a position on    *)
(* the time axis is compared after multiplying through by the inner width. *)
(***************************************************************************)
\* const margin = { top: 20, right: 30, bottom: 30, left: 60 } (line 31)
MarginTop == 20

MarginRight == 30

MarginBottom == 30

MarginLeft == 60

\* const innerWidth = width - margin.left - margin.right (line 32)
InnerWidth(p) == p.width - MarginLeft - MarginRight

\* const innerHeight = height - margin.top - margin.bottom (line 33)
InnerHeight(p) == p.height - MarginTop - MarginBottom

\* the day number d3.timeParse("%Y-%m-%d") reads from a bar's date (lines 42-46)
FormattedDates(data) ==
    [i \in 1..Len(data) |-> DaysFromCivil(data[i].date[1], data[i].date[2], data[i].date[3])]

\* tooltip: for the hover rectangle, the tooltip its listeners close over
Element(tag, role, p, index, tooltip) ==
    [tag |-> tag, role |-> role, of |-> p, index |-> index, tooltip |-> tooltip]

\* the glyphs of the display mode (lines 66-143)
Glyphs(p) ==
    IF ~p.showCandlestick
    THEN << Element("defs", "area-gradient", p, 0, 0),
            Element("path", "area", p, 0, 0),
            Element("path", "line", p, 0, 0) >>
    ELSE [i \in 1..Len(p.data) |-> Element("g", "candlestick", p, i, 0)]

\* the axes and the hover rectangle (lines 145-151, 162-186)
AxesAndOverlay(p, tooltip) ==
    << Element("g", "axis-bottom", p, 0, 0),
       Element("g", "axis-left", p, 0, 0),
       Element("rect", "overlay", p, 0, tooltip) >>

ClearChartKeepsAll(children) == children

\* d3.select(svgRef.current).selectAll("*").remove() (line 29)
ClearChart(children) == <<>>

RemoveTooltipKeepsAll(elements, id) == elements

\* tooltip.remove() (line 190), for the tooltip the cleanup closes over
RemoveTooltip(elements, id) == {t \in elements : t.id # id}

NoProps == [data |-> <<>>, showCandlestick |-> FALSE, width |-> 0, height |-> 0]

NoPointer == [px |-> 0, index |-> 0, of |-> NoProps]

\* a name for the next <div> appended to the body
FreshId(elements) == CHOOSE n \in 1..(Cardinality(elements) + 1) : \A t \in elements : t.id # n

\* d3.bisector(d => d.date).left(a, x, lo, hi) (lines 170, 172); the position x is
\* the quotient xNum / xDen, indices are those of JavaScript (from 0)
RECURSIVE BisectLeft(_, _, _, _, _)
BisectLeft(a, xNum, xDen, lo, hi) ==
    IF lo < hi
    THEN LET mid == (lo + hi) \div 2
         IN  IF a[mid + 1] * xDen < xNum
             THEN BisectLeft(a, xNum, xDen, mid + 1, hi)
             ELSE BisectLeft(a, xNum, xDen, lo, mid)
    ELSE lo

HoveredIndexNoPredecessor(dates, xNum, xDen) == BisectLeft(dates, xNum, xDen, 1, Len(dates))

\* const i = bisect(formattedData, x0, 1); const d = formattedData[i - 1] (lines 172-173):
\* the index, from 0, of the bar the tooltip shows
HoveredIndex(dates, xNum, xDen) == BisectLeft(dates, xNum, xDen, 1, Len(dates)) - 1

Min(set) == CHOOSE x \in set : \A y \in set : x <= y

Max(set) == CHOOSE x \in set : \A y \in set : x >= y

\* x.invert(px) (line 171) of the scale of lines 55-57, as a numerator over InnerWidth(p)
InvertNum(p, px) ==
    LET dates == {FormattedDates(p.data)[i] : i \in 1..Len(p.data)}
    IN  Min(dates) * InnerWidth(p) + px * (Max(dates) - Min(dates))

Tooltip(id, display, html) == [id |-> id, display |-> display, html |-> html]

\* the body of the effect (lines 25-192) for props p, the cleanup of the
\* previous run done
Effect(p, children, elements) ==
    IF Len(p.data) = 0
    THEN /\ svg' = children
         /\ body' = elements
         /\ cleanup' = 0
         /\ UNCHANGED <<lastDrawn, drawnBefore>>
    ELSE LET id == FreshId(elements)
         IN  /\ svg' = ClearChart(children) \o << Glyphs(p) \o AxesAndOverlay(p, id) >>
             /\ body' = elements \cup {Tooltip(id, "hidden", <<>>)}
             /\ cleanup' = id
             /\ lastDrawn' = p
             /\ drawnBefore' = IF lastDrawn = NoProps THEN "none"
                               ELSE IF lastDrawn.showCandlestick THEN "candlestick" ELSE "area"

\* the cleanup of the previous effect run (lines 189-191), if it returned one
AfterCleanup == IF cleanup = 0 THEN body ELSE RemoveTooltip(body, cleanup)

ChartInit ==
    /\ mounted = FALSE
    /\ props = NoProps
    /\ svg = <<>>
    /\ body = {}
    /\ cleanup = 0
    /\ pointer = NoPointer
    /\ lastDrawn = NoProps
    /\ drawnBefore = "none"

\* <StockChart .../> is mounted (line 452, or by another caller) and its effect runs
Mount(p) ==
    /\ ~mounted
    /\ mounted' = TRUE
    /\ props' = p
    /\ Effect(p, <<>>, body)
    /\ pointer' = NoPointer
    /\ UNCHANGED notChart

\* a render with new props: the dependencies of line 192 differ, React runs the
\* cleanup of the previous run and then the effect
Rerender(p) ==
    /\ mounted
    /\ props' = p
    /\ Effect(p, svg, AfterCleanup)
    /\ pointer' = NoPointer
    /\ UNCHANGED mounted
    /\ UNCHANGED notChart

\* the chart is unmounted: React runs the cleanup and removes the <svg>
Unmount ==
    /\ mounted
    /\ mounted' = FALSE
    /\ props' = NoProps
    /\ svg' = <<>>
    /\ body' = AfterCleanup
    /\ cleanup' = 0
    /\ pointer' = NoPointer
    /\ lastDrawn' = NoProps
    /\ drawnBefore' = "none"
    /\ UNCHANGED notChart

\* the hover rectangles in the <svg>
Overlays ==
    UNION {{svg[g][e] : e \in {k \in 1..Len(svg[g]) : svg[g][k].role = "overlay"}} : g \in 1..Len(svg)}

WithDisplay(elements, id, display) ==
    {IF t.id = id THEN Tooltip(t.id, display, t.html) ELSE t : t \in elements}

WithHtml(elements, id, html) ==
    {IF t.id = id THEN Tooltip(t.id, t.display, html) ELSE t : t \in elements}

\* .on("mouseover", () => tooltip.style("display", "block")) (line 167)
MouseOver ==
    /\ \E o \in Overlays : body' = WithDisplay(body, o.tooltip, "block")
    /\ UNCHANGED <<mounted, props, svg, cleanup, pointer, lastDrawn, drawnBefore>>
    /\ UNCHANGED notChart

\* .on("mouseout", () => tooltip.style("display", "none")) (line 168)
MouseOut ==
    /\ \E o \in Overlays : body' = WithDisplay(body, o.tooltip, "none")
    /\ UNCHANGED <<mounted, props, svg, cleanup, pointer, lastDrawn, drawnBefore>>
    /\ UNCHANGED notChart

\* .on("mousemove", ...) (lines 169-186) with the pointer px pixels into the
\* hover rectangle; formattedData[i - 1] out of range makes d.date throw
MouseMove(px) ==
    /\ \E o \in Overlays :
          LET dates == FormattedDates(o.of.data)
              i     == HoveredIndex(dates, InvertNum(o.of, px), InnerWidth(o.of))
          IN  /\ px <= InnerWidth(o.of)
              /\ body' = IF i \in 0..(Len(dates) - 1)
                           THEN WithHtml(body, o.tooltip, <<o.of.data[i + 1]>>)
                           ELSE body
              /\ pointer' = [px |-> px, index |-> i, of |-> o.of]
    /\ UNCHANGED <<mounted, props, svg, cleanup, lastDrawn, drawnBefore>>
    /\ UNCHANGED notChart

(***************************************************************************)
(* The props the chart is rendered with and the pointer positions.         *)
(***************************************************************************)
Week ==
    << Bar(<<2024, 6, 10>>, 100, 103, 99, 102, 410),
       Bar(<<2024, 6, 11>>, 102, 104, 100, 101, 380),
       Bar(<<2024, 6, 12>>, 101, 108, 101, 107, 520),
       Bar(<<2024, 6, 14>>, 107, 109, 103, 104, 450) >>

MaxChartBars == 3

ChartSeries == SubSeqsUpTo(Week, MaxChartBars)

\* width = 800, height = 400 by default (line 22)
Widths == {800, 600}

Heights == {400}

ChartProps ==
    [data : ChartSeries, showCandlestick : BOOLEAN, width : Widths, height : Heights]

PointerSteps == 4

\* pointer positions from the left edge of the hover rectangle to its right edge
PointerXs == UNION {{(k * (w - MarginLeft - MarginRight)) \div PointerSteps : k \in 0..PointerSteps} : w \in Widths}

NextChart ==
    \/ \E p \in ChartProps : Mount(p)
    \/ \E p \in ChartProps : Rerender(p)
    \/ Unmount
    \/ MouseOver
    \/ MouseOut
    \/ \E px \in PointerXs : MouseMove(px)

(***************************************************************************)
(* C6, C7, C9                                                              *)
(***************************************************************************)
\* C6: after a pointer move over a chart of n >= 1 bars with increasing dates the
\* selected index is within 0..n-1; the selected bar's date is at or before the
\* date under the pointer; with the pointer strictly between two consecutive
\* bars it is the earlier one, and with the pointer at the first bar the first.
C6_HoverSelectsEarlierBar ==
    pointer # NoPointer =>
        LET data  == pointer.of.data
            n     == Len(data)
            iw    == pointer.of.width - MarginLeft - MarginRight
            day(k) == DaysFromCivil(data[k].date[1], data[k].date[2], data[k].date[3])
            \* the date under the pointer, times iw
            x0    == day(1) * iw + pointer.px * (day(n) - day(1))
        IN  /\ pointer.index \in 0..(n - 1)
            /\ day(pointer.index + 1) * iw <= x0
            /\ \A k \in 1..(n - 1) :
                  (day(k) * iw < x0 /\ x0 < day(k + 1) * iw) => pointer.index = k - 1
            /\ x0 <= day(1) * iw => pointer.index = 0
            /\ \A t \in body : t.id = cleanup => t.html = <<data[pointer.index + 1]>>

\* the pointer is in the middle of a chart of the bars of June 10, 11 and 14,
\* between the second and the third, and the tooltip shows the second
C6_Witness ==
    /\ pointer # NoPointer
    /\ Len(pointer.of.data) = 3
    /\ pointer.of.data[1].date = <<2024, 6, 10>>
    /\ pointer.of.data[2].date = <<2024, 6, 11>>
    /\ pointer.of.data[3].date = <<2024, 6, 14>>
    /\ 2 * pointer.px = pointer.of.width - MarginLeft - MarginRight
    /\ pointer.index = 1
    /\ \E t \in body : t.html = <<pointer.of.data[2]>>

\* the elements in the <svg>, with their places
Drawn == {<<g, e>> : g \in 1..Len(svg), e \in 1..Max({0} \cup {Len(svg[k]) : k \in 1..Len(svg)})}
            \cap {ge \in (1..Len(svg)) \X (1..Max({0} \cup {Len(svg[k]) : k \in 1..Len(svg)})) :
                    ge[2] <= Len(svg[ge[1]])}

DrawnAs(role) == {ge \in Drawn : svg[ge[1]][ge[2]].role = role}

\* C7: after any sequence of redraws the <svg> holds only elements drawn from the
\* props of the latest redraw, in one group, with the glyphs of one mode: an area
\* path and a line path and no candlestick in area/line mode, one candlestick
\* group per bar and no area or line path in candlestick mode.
C7_OnlyLatestRedraw ==
    (mounted /\ lastDrawn # NoProps) =>
        /\ Len(svg) = 1
        /\ \A ge \in Drawn : svg[ge[1]][ge[2]].of = lastDrawn
        /\ IF lastDrawn.showCandlestick
             THEN /\ DrawnAs("area") = {} /\ DrawnAs("line") = {} /\ DrawnAs("area-gradient") = {}
                  /\ Cardinality(DrawnAs("candlestick")) = Len(lastDrawn.data)
                  /\ \A i \in 1..Len(lastDrawn.data) :
                        \E ge \in DrawnAs("candlestick") : svg[ge[1]][ge[2]].index = i
             ELSE /\ Cardinality(DrawnAs("area")) = 1
                  /\ Cardinality(DrawnAs("line")) = 1
                  /\ DrawnAs("candlestick") = {}
        /\ Cardinality(DrawnAs("overlay")) = 1
        /\ Cardinality(DrawnAs("axis-bottom")) = 1
        /\ Cardinality(DrawnAs("axis-left")) = 1

\* candlesticks of two bars were drawn over a chart that had area and line paths
C7_Witness ==
    /\ mounted
    /\ drawnBefore = "area"
    /\ lastDrawn.showCandlestick
    /\ Len(lastDrawn.data) = 2
    /\ Cardinality(DrawnAs("candlestick")) = 2

\* C9: at most one tooltip of the chart is in the document body; it is the one
\* the latest effect run created, so there is none when that run returned at the
\* empty-data guard; none is left once the chart is unmounted.
C9_AtMostOneTooltip ==
    /\ Cardinality(body) <= 1
    /\ \A t \in body : t.id = cleanup
    /\ (mounted /\ props.data = <<>>) => body = {}
    /\ ~mounted => body = {}

\* the chart drew, then was rendered with no bars: its tooltip is gone
C9_Witness ==
    /\ mounted
    /\ lastDrawn # NoProps
    /\ props.data = <<>>
    /\ body = {}

(***************************************************************************)
(* Home and the fetch layer (lines 292-311, 363-453).  The request is made *)
(* by useSWR, a library the component imports; what the component fixes is *)
(* the key (lines 298-304), the fetcher (line 305) and the options (lines  *)
(* 307-309).  The library's side is modelled by its documented behaviour:  *)
(* a cache entry per key, one request per key at a time, no new request    *)
(* for a key within the deduping interval of the last one, and a retry     *)
(* timeout after a failure of the current key while the retry count is     *)
(* within errorRetryCount.                                                 *)
(***************************************************************************)
\* TIME_RANGES (lines 252-259); "" stands for an absent field
TIME_RANGES(range) ==
    CASE range = "1D" -> [function |-> "TIME_SERIES_INTRADAY", interval |-> "5min", outputsize |-> "full"]
      [] range = "1M" -> [function |-> "TIME_SERIES_DAILY", interval |-> "", outputsize |-> "compact"]
      [] range = "6M" -> [function |-> "TIME_SERIES_DAILY", interval |-> "", outputsize |-> "full"]
      [] range = "1Y" -> [function |-> "TIME_SERIES_WEEKLY", interval |-> "", outputsize |-> ""]
      [] range = "5Y" -> [function |-> "TIME_SERIES_MONTHLY", interval |-> "", outputsize |-> ""]
      [] range = "ALL" -> [function |-> "TIME_SERIES_MONTHLY", interval |-> "", outputsize |-> ""]

\* a key that leaves the symbol out of the query string
SWRKeyWithoutSymbol(sym, range) ==
    <<TIME_RANGES(range).function, TIME_RANGES(range).interval, TIME_RANGES(range).outputsize>>

\* the first argument of useSWR (lines 298-304): the query string's parameters
\* in order (the api key is the same in every key and is left out)
SWRKey(sym, range) ==
    <<TIME_RANGES(range).function, sym, TIME_RANGES(range).interval, TIME_RANGES(range).outputsize>>

CurrentKey == SWRKey(symbol, timeRange)

\* an option that allows one retry more
errorRetryCountOneMore == 2 + 1

\* errorRetryCount: 2 (line 309)
errorRetryCount == 2

\* whether a failure schedules the retry with this count (line 309)
ShouldRetry(retryCount) == retryCount <= errorRetryCount

\* what a request was issued for: the symbol and the range's parameters
RequestFor(sym, range) == <<sym, TIME_RANGES(range)>>

NoRequest == <<>>

NoError == [defined |-> FALSE, message |-> "", for |-> NoRequest]

Error(message, for) == [defined |-> TRUE, message |-> message, for |-> for]

Uncached == [defined |-> FALSE, bars |-> <<>>, for |-> NoRequest]

Cached(bars, for) == [defined |-> TRUE, bars |-> bars, for |-> for]

NoEntry == [data |-> Uncached, error |-> NoError, isValidating |-> FALSE, isLoading |-> FALSE]

Idle == [state |-> "none", retryCount |-> 0, for |-> NoRequest]

Pending(retryCount, for) == [state |-> "pending", retryCount |-> retryCount, for |-> for]

Settled == [state |-> "settled", retryCount |-> 0, for |-> NoRequest]

\* the texts submitted on the dashboard
DashQueries ==
    {<<"a">>, <<"t", "a", "t", "a", "m", "o", "t", "o", "r", "s", ".", "b", "s", "e">>}

DashSymbols == {DefaultSymbol} \cup {ToUpperCase(Trim(q)) : q \in DashQueries}

\* the ranges selected on the dashboard
DashRanges == {"1M", "5Y", "ALL"}

DashKeys == {SWRKey(s, r) : s \in DashSymbols, r \in DashRanges}

RetryCounts == 1..(errorRetryCount + 1)

MaxKeyChanges == 2

(***************************************************************************)
(* The responses of the dashboard's requests.                              *)
(***************************************************************************)
OldestOnly ==
    << <<<<2019, 6, 14>>, Quote(<<"5", "0">>, <<"5", "5">>, <<"4", "9">>, <<"5", "2">>,
                                <<"1", "0", "0">>)>> >>

SeriesResponse(entries) ==
    << <<<<"Meta", "Data">>, JsonObject(<<>>)>>,
       <<<<"Time", "Series", "(Daily)">>, JsonObject(entries)>> >>

NoteResponse == << <<NoteKey, JsonString("Thank you for using Alpha Vantage!")>> >>

ErrorResponse == << <<ErrorMessageKey, JsonString("Invalid API call.")>> >>

FailingResponses == {NoteResponse, ErrorResponse, <<>>}

DashResponses ==
    {NoteResponse, SeriesResponse(OldestOnly), SeriesResponse(NewestFirst)}

(***************************************************************************)
(* useSWR (lines 297-311).                                                 *)
(***************************************************************************)
\* whether a revalidation of key k issues a request: none is in flight for the
\* key and none settled within dedupingInterval (line 308)
StartsRequest(k) == FETCH[k].state = "none"

\* the cache after a revalidation of key k: a request that starts marks the
\* key as validating, and as loading when no data is cached for it
CacheAfterRevalidate(k) ==
    IF StartsRequest(k)
    THEN [cache EXCEPT ![k].isValidating = TRUE,
                       ![k].isLoading = IF cache[k].data.defined THEN @ ELSE TRUE]
    ELSE cache

FetchAfterRevalidate(k, retryCount, for) ==
    IF StartsRequest(k) THEN [FETCH EXCEPT ![k] = Pending(retryCount, for)] ELSE FETCH

\* const { data } = useSWR(...) (line 297): the data cached for the key
DataOf(c, k) == [defined |-> c[k].data.defined, bars |-> c[k].data.bars]

\* what Home shows of the fetch: data, error and isLoading of the current key
Shown(c) == <<c[CurrentKey].data, c[CurrentKey].error, c[CurrentKey].isLoading>>

\* what the fetcher (line 305) makes of each response
Fetched == [resp \in DashResponses \cup FailingResponses |-> fetcher(resp)]

SWRInit ==
    /\ cache = [k \in DashKeys |->
                   IF k = SWRKey(DefaultSymbol, "1M")
                   THEN [NoEntry EXCEPT !.isValidating = TRUE, !.isLoading = TRUE]
                   ELSE NoEntry]
    /\ FETCH = [k \in DashKeys |->
                   IF k = SWRKey(DefaultSymbol, "1M")
                   THEN Pending(0, RequestFor(DefaultSymbol, "1M"))
                   ELSE Idle]
    /\ timers = [t \in DashKeys \X RetryCounts |-> 0]
    /\ keyChanges = 0
    /\ attempts = 1
    /\ lastFailure = ""
    /\ staleResponse = "none"

\* Home renders with a symbol or a range that gives useSWR another key: the
\* hook revalidates the new key (lines 297-304)
KeyChange(sym, range) ==
    LET k == SWRKey(sym, range)
    IN  IF k = CurrentKey
        THEN UNCHANGED <<swrVars, swrData>>
        ELSE /\ keyChanges < MaxKeyChanges
             /\ keyChanges' = keyChanges + 1
             /\ cache' = CacheAfterRevalidate(k)
             /\ FETCH' = FetchAfterRevalidate(k, 0, RequestFor(sym, range))
             /\ attempts' = 0
             /\ lastFailure' = ""
             /\ swrData' = DataOf(cache', k)
             /\ UNCHANGED <<timers, staleResponse>>

\* the form is submitted with the text typed (lines 214-218, 313-316) and Home
\* renders with the new symbol
SearchFor(text) ==
    /\ query' = text
    /\ symbol' = IF SubmitCalls(text) THEN handleSearch(SubmitArg(text)) ELSE symbol
    /\ lastValid' = IF IsBlank(text) THEN lastValid ELSE text
    /\ UNCHANGED <<timeRange, showCandlestick, blankSubmitted, blankEffect>>
    /\ KeyChange(symbol', timeRange)
    /\ UNCHANGED notDash

\* a range is chosen (line 435) and Home renders with it
SelectRange(value) ==
    /\ value # ""
    /\ timeRange' = value
    /\ UNCHANGED <<query, symbol, showCandlestick, lastValid, blankSubmitted, blankEffect>>
    /\ KeyChange(symbol, value)
    /\ UNCHANGED notDash

\* the request of key k finishes with the parsed response resp: the fetcher
\* (line 305) returns the bars or throws
FetchCompletes(k, resp) ==
    /\ FETCH[k].state = "pending"
    /\ LET result == Fetched[resp]
           for == FETCH[k].for
           retryCount == FETCH[k].retryCount + 1
       IN  IF result.kind = "bars"
           THEN /\ cache' = [cache EXCEPT ![k] = [data |-> Cached(result.bars, for),
                                                  error |-> NoError,
                                                  isValidating |-> FALSE,
                                                  isLoading |-> FALSE]]
                /\ FETCH' = [FETCH EXCEPT ![k] = Settled]
                /\ lastFailure' = IF k = CurrentKey THEN "" ELSE lastFailure
                /\ UNCHANGED timers
           ELSE /\ cache' = [cache EXCEPT ![k].error = Error(result.message, for),
                                          ![k].isValidating = FALSE,
                                          ![k].isLoading = FALSE]
                /\ FETCH' = [FETCH EXCEPT ![k] = Idle]
                /\ lastFailure' = IF k = CurrentKey THEN result.message ELSE lastFailure
                /\ timers' = IF k = CurrentKey /\ ShouldRetry(retryCount)
                             THEN [timers EXCEPT ![<<k, retryCount>>] = @ + 1]
                             ELSE timers
    /\ swrData' = DataOf(cache', CurrentKey)
    /\ staleResponse' = IF FETCH[k].for = RequestFor(symbol, timeRange) THEN staleResponse
                        ELSE IF Shown(cache') # Shown(cache) THEN "applied"
                        ELSE IF staleResponse = "none" THEN "ignored"
                        ELSE staleResponse
    /\ UNCHANGED <<keyChanges, attempts>>
    /\ UNCHANGED searchVars
    /\ UNCHANGED notDash

\* the retry timeout set after a failure of key k fires: the key is
\* revalidated if it is still the hook's key
RetryTimerFires(k, retryCount) ==
    /\ timers[<<k, retryCount>>] > 0
    /\ timers' = [timers EXCEPT ![<<k, retryCount>>] = @ - 1]
    /\ IF k = CurrentKey
       THEN /\ cache' = CacheAfterRevalidate(k)
            /\ FETCH' = FetchAfterRevalidate(k, retryCount, RequestFor(symbol, timeRange))
            /\ attempts' = IF StartsRequest(k) /\ keyChanges = 0 THEN attempts + 1 ELSE attempts
       ELSE UNCHANGED <<cache, FETCH, attempts>>
    /\ swrData' = DataOf(cache', CurrentKey)
    /\ UNCHANGED <<keyChanges, lastFailure, staleResponse>>
    /\ UNCHANGED searchVars
    /\ UNCHANGED notDash

\* dedupingInterval (line 308) has passed since the request of key k settled
DedupeExpires(k) ==
    /\ FETCH[k].state = "settled"
    /\ FETCH' = [FETCH EXCEPT ![k] = Idle]
    /\ UNCHANGED <<cache, timers, keyChanges, attempts, lastFailure, staleResponse, swrData>>
    /\ UNCHANGED searchVars
    /\ UNCHANGED notDash

(***************************************************************************)
(* What Home renders of the fetch (lines 376-383, 386-419, 443-453).       *)
(***************************************************************************)
isLoading == cache[CurrentKey].isLoading

error == cache[CurrentKey].error

\* the alert above the cards (lines 376-383): the message shown, "" for no alert
ErrorBanner == IF error.defined THEN error.message ELSE ""

\* the summary cards (lines 386-419)
SummaryCards ==
    IF isLoading THEN "skeleton"
    ELSE IF Len(filteredData) > 0 THEN "cards"
    ELSE "nothing"

\* a chart area that tests the series before the error
ChartAreaSeriesFirst ==
    IF isLoading THEN "skeleton"
    ELSE IF Len(filteredData) > 0 THEN "chart"
    ELSE IF error.defined THEN "hint"
    ELSE "nothing"

\* the chart area (lines 443-453)
ChartArea ==
    IF isLoading THEN "skeleton"
    ELSE IF error.defined THEN "hint"
    ELSE IF Len(filteredData) > 0 THEN "chart"
    ELSE "nothing"

\* the data prop StockChart is rendered with (line 451) while it is mounted
ChartData == IF ChartArea = "chart" THEN Data(filteredData) ELSE NoData

NextDash ==
    \/ \E text \in DashQueries : SearchFor(text)
    \/ \E value \in DashRanges \cup {""} : SelectRange(value)
    \/ \E k \in DashKeys : \E resp \in DashResponses : FetchCompletes(k, resp)
    \/ \E k \in DashKeys : \E n \in RetryCounts : RetryTimerFires(k, n)
    \/ \E k \in DashKeys : DedupeExpires(k)

\* every request fails and the key stays the same: the user types and toggles
\* the chart mode, but submits nothing and chooses no range
Fails == \E k \in DashKeys : \E resp \in FailingResponses : FetchCompletes(k, resp)

Retries == \E k \in DashKeys : \E n \in RetryCounts : RetryTimerFires(k, n)

NextRetry ==
    \/ \E text \in Edits(query) : SetQuery(text)
    \/ \E checked \in BOOLEAN : SetShowCandlestick(checked)
    \/ Fails
    \/ Retries

(***************************************************************************)
(* C1                                                                      *)
(***************************************************************************)
\* C1: however symbol changes, range changes and fetch completions interleave,
\* the data Home displays (and the error it shows) is the outcome of a request
\* issued for the current symbol and the current range's parameters, and no
\* response of a request issued for another symbol or other parameters changes
\* the displayed data, error or loading state.
C1_ShownIsOfCurrentKey ==
    /\ staleResponse # "applied"
    /\ swrData = DataOf(cache, CurrentKey)
    /\ cache[CurrentKey].data.defined =>
           cache[CurrentKey].data.for = <<symbol, TIME_RANGES(timeRange)>>
    /\ error.defined => error.for = <<symbol, TIME_RANGES(timeRange)>>

\* the symbol was changed while the first request was in flight, the second
\* request finished, then the first one's response arrived and was cached
\* under its own key; the series shown is the second request's
C1_Witness ==
    /\ staleResponse = "ignored"
    /\ symbol = <<"A">>
    /\ timeRange = "1M"
    /\ keyChanges = 1
    /\ swrData.defined /\ Len(swrData.bars) = 2
    /\ cache[SWRKey(DefaultSymbol, "1M")].data.defined
    /\ Len(cache[SWRKey(DefaultSymbol, "1M")].data.bars) = 1
    /\ FETCH[CurrentKey].state = "none"
    /\ FETCH[SWRKey(DefaultSymbol, "1M")].state = "settled"

(***************************************************************************)
(* C8                                                                      *)
(***************************************************************************)
InFlight == FETCH[CurrentKey].state = "pending"

Quiet ==
    /\ ~InFlight
    /\ \A n \in RetryCounts : timers[<<CurrentKey, n>>] = 0

\* C10: while the key stays the same and every request fails, at most three
\* requests are issued (the first and two retries) and the banner shows the
\* message of the latest failure; eventually no request is in flight and none is
\* scheduled, Home is not loading and the banner shows the last failure's message.
C10_BoundedRetries ==
    /\ [](attempts <= 1 + 2)
    /\ [](lastFailure # "" => ErrorBanner = lastFailure)
    /\ <>[](Quiet /\ ~isLoading /\ attempts = 3 /\ lastFailure # "" /\ ErrorBanner = lastFailure)

\* the third request has failed with the no-data message after the second one
\* failed otherwise; nothing is in flight or scheduled
C10_Witness ==
    /\ attempts = 3
    /\ Quiet
    /\ ~isLoading
    /\ keyChanges = 0
    /\ lastFailure = NoDataMessage
    /\ ErrorBanner = NoDataMessage
    /\ ChartArea = "hint"

(***************************************************************************)
(* The specifications.                                                     *)
(***************************************************************************)
Init ==
    /\ SearchInit
    /\ FetcherInit
    /\ DerivedInit
    /\ ChartInit
    /\ SWRInit

SpecSearch == Init /\ [][NextSearch]_vars

SpecFetcher == Init /\ [][NextFetcher]_vars

SpecDerived == Init /\ [][NextDerived]_vars

SpecChart == Init /\ [][NextChart]_vars

SpecDash == Init /\ [][NextDash]_vars

\* a request in flight finishes and a timeout that is set fires
SpecRetry == Init /\ [][NextRetry]_vars /\ WF_vars(Fails) /\ WF_vars(Retries)

=============================================================================
